---- MODULE Spec2Model ----
(***************************************************************************)
(* Model of async-once-watch (src/src/lib.rs): OnceWatch<T>, a cell whose  *)
(* value is set at most once through a compare_exchange on an AtomicPtr,   *)
(* and whose readers wait on an event_listener::Event.                     *)
(*                                                                         *)
(* Calls of set / get / try_get run concurrently, numbered in the order in *)
(* which they start; each atomic access to `data` and each locked          *)
(* operation on the event's listener list is one step.                     *)
(* The Event is modelled by the behaviour of the event_listener            *)
(* crate the code calls: listen() appends an un-notified entry to the      *)
(* list, notify_additional(n) marks up to n entries that are in the list   *)
(* and not yet notified (a notification that finds no such entry is lost), *)
(* and dropping a listener removes its entry, passing a notification it    *)
(* had received on to the next un-notified entry.                          *)
(***************************************************************************)
EXTENDS Integers, Sequences, FiniteSets, TLC

\* ---- bounds ----
MaxCalls == 3
MaxVal == 2

\* the calls made on the cell, numbered in the order in which they start
Calls == 1..MaxCalls
Values == 1..MaxVal

\* ptr::null_mut()
Null == 0

VARIABLES
    data,       \* OnceWatch.data: AtomicPtr<T>, Null or an index into heap
    event,      \* OnceWatch.event: the Event's list of listener entries, in registration order
    heap,       \* Box allocations made by set: heap[p] = [val, live, frees]
    pc,         \* position of each call in its code: "new" before it starts, "done" once it has ended
    arg,        \* payload `data` of each set call
    ptr,        \* local `ptr` of each set call that is executing
    ret,        \* result of each call that has ended
    nNotify,    \* number of notify_additional calls made
    dropped     \* TRUE once the cell has been dropped

vars == <<data, event, heap, pc, arg, ptr, ret, nNotify, dropped>>

NoRet == [op |-> "none", kind |-> "none", val |-> 0]

\* ---- event_listener::Event ----

\* Event::listen(): a new entry, not notified, at the tail of the list.
Listen(list, t) == Append(list, [owner |-> t, notified |-> FALSE])

\* positions of the entries no notification has reached
Unnotified(list) == {i \in 1..Len(list) : ~list[i].notified}

Min(S) == CHOOSE x \in S : \A y \in S : x <= y

\* Event::notify_additional(n): notifies the first n un-notified entries.
RECURSIVE NotifyAdditional(_, _)
NotifyAdditional(list, n) ==
    IF n = 0 \/ Unnotified(list) = {} THEN list
    ELSE LET i == Min(Unnotified(list))
         IN NotifyAdditional([list EXCEPT ![i].notified = TRUE], n - 1)

\* usize::MAX: more than any list the model can build
UsizeMax == MaxCalls + 1

HasEntry(list, t) == \E i \in 1..Len(list) : list[i].owner = t
EntryOf(list, t) == CHOOSE i \in 1..Len(list) : list[i].owner = t
IsNotified(list, t) == HasEntry(list, t) /\ list[EntryOf(list, t)].notified

\* the list without the entry of t
Remove(list, t) ==
    LET i == EntryOf(list, t)
    IN SubSeq(list, 1, i - 1) \o SubSeq(list, i + 1, Len(list))

\* Drop of an EventListener: the entry leaves the list; a notification it
\* had received is passed on with notify_additional(1).
DropListener(list, t) ==
    IF IsNotified(list, t) THEN NotifyAdditional(Remove(list, t), 1)
    ELSE Remove(list, t)

\* ---- OnceWatch ----

\* OnceWatch::new()
new ==
    /\ data = Null
    /\ event = <<>>
    /\ heap = <<>>
    /\ pc = [t \in Calls |-> "new"]
    /\ arg = [t \in Calls |-> 0]
    /\ ptr = [t \in Calls |-> Null]
    /\ ret = [t \in Calls |-> NoRet]
    /\ nNotify = 0
    /\ dropped = FALSE

Init == new

\* call t can start: the cell is alive and the calls before t have started
CanCall(t) ==
    /\ pc[t] = "new"
    /\ \A u \in 1..(t - 1) : pc[u] # "new"
    /\ ~dropped

\* a set that notifies the listeners before it publishes its pointer
set_box_notify_first(t, v) ==
    /\ CanCall(t)
    /\ heap' = Append(heap, [val |-> v, live |-> TRUE, frees |-> 0])
    /\ ptr' = [ptr EXCEPT ![t] = Len(heap) + 1]
    /\ arg' = [arg EXCEPT ![t] = v]
    /\ event' = NotifyAdditional(event, UsizeMax)
    /\ pc' = [pc EXCEPT ![t] = "cas"]
    /\ UNCHANGED <<data, ret, nNotify, dropped>>

\* a set that stores its pointer without comparing (swap instead of compare_exchange)
set_box_store(t, v) ==
    /\ CanCall(t)
    /\ heap' = Append(heap, [val |-> v, live |-> TRUE, frees |-> 0])
    /\ ptr' = [ptr EXCEPT ![t] = Len(heap) + 1]
    /\ arg' = [arg EXCEPT ![t] = v]
    /\ data' = Len(heap) + 1
    /\ pc' = [pc EXCEPT ![t] = "cas"]
    /\ UNCHANGED <<event, ret, nNotify, dropped>>

\* set, lines 68-69: Box::new(data); Box::into_raw
set_box(t, v) ==
    /\ CanCall(t)
    /\ heap' = Append(heap, [val |-> v, live |-> TRUE, frees |-> 0])
    /\ ptr' = [ptr EXCEPT ![t] = Len(heap) + 1]
    /\ arg' = [arg EXCEPT ![t] = v]
    /\ pc' = [pc EXCEPT ![t] = "cas"]
    /\ UNCHANGED <<data, event, ret, nNotify, dropped>>

\* a compare_exchange in a retry loop: the call spins while the slot is taken
set_compare_exchange_retry(t) ==
    /\ pc[t] = "cas"
    /\ data = Null
    /\ data' = ptr[t]
    /\ pc' = [pc EXCEPT ![t] = "notify"]
    /\ UNCHANGED <<event, heap, arg, ptr, ret, nNotify, dropped>>

\* a compare_exchange whose result is not inspected: the caller always takes the Ok arm
set_compare_exchange_unchecked(t) ==
    /\ pc[t] = "cas"
    /\ data' = IF data = Null THEN ptr[t] ELSE data
    /\ pc' = [pc EXCEPT ![t] = "notify"]
    /\ UNCHANGED <<event, heap, arg, ptr, ret, nNotify, dropped>>

\* set, lines 71-73: data.compare_exchange(null, ptr)
set_compare_exchange(t) ==
    /\ pc[t] = "cas"
    /\ IF data = Null
       THEN /\ data' = ptr[t]
            /\ pc' = [pc EXCEPT ![t] = "notify"]
       ELSE /\ data' = data
            /\ pc' = [pc EXCEPT ![t] = "free"]
    /\ UNCHANGED <<event, heap, arg, ptr, ret, nNotify, dropped>>

\* an Ok arm that wakes one listener only (notify_additional(1))
set_ok_notify_one(t) ==
    /\ pc[t] = "notify"
    /\ event' = NotifyAdditional(event, 1)
    /\ nNotify' = nNotify + 1
    /\ ret' = [ret EXCEPT ![t] = [op |-> "set", kind |-> "ok", val |-> 0]]
    /\ pc' = [pc EXCEPT ![t] = "done"]
    /\ ptr' = [ptr EXCEPT ![t] = Null]
    /\ UNCHANGED <<data, heap, arg, dropped>>

\* set, lines 76-79: the Ok arm
set_ok(t) ==
    /\ pc[t] = "notify"
    /\ event' = NotifyAdditional(event, UsizeMax)
    /\ nNotify' = nNotify + 1
    /\ ret' = [ret EXCEPT ![t] = [op |-> "set", kind |-> "ok", val |-> 0]]
    /\ pc' = [pc EXCEPT ![t] = "done"]
    /\ ptr' = [ptr EXCEPT ![t] = Null]
    /\ UNCHANGED <<data, heap, arg, dropped>>

\* an Err arm that notifies the listeners as the Ok arm does
set_err_notify(t) ==
    /\ pc[t] = "free"
    /\ heap' = [heap EXCEPT ![ptr[t]].live = FALSE, ![ptr[t]].frees = @ + 1]
    /\ event' = NotifyAdditional(event, UsizeMax)
    /\ nNotify' = nNotify + 1
    /\ ret' = [ret EXCEPT ![t] = [op |-> "set", kind |-> "err", val |-> heap[ptr[t]].val]]
    /\ pc' = [pc EXCEPT ![t] = "done"]
    /\ ptr' = [ptr EXCEPT ![t] = Null]
    /\ UNCHANGED <<data, arg, dropped>>

\* an Err arm that frees the box the slot points to instead of its own
set_err_free_slot(t) ==
    /\ pc[t] = "free"
    /\ heap' = [heap EXCEPT ![data].live = FALSE, ![data].frees = @ + 1]
    /\ ret' = [ret EXCEPT ![t] = [op |-> "set", kind |-> "err", val |-> heap[ptr[t]].val]]
    /\ pc' = [pc EXCEPT ![t] = "done"]
    /\ ptr' = [ptr EXCEPT ![t] = Null]
    /\ UNCHANGED <<data, event, arg, nNotify, dropped>>

\* an Err arm that frees its box and hands back the value found in the slot
set_err_stored(t) ==
    /\ pc[t] = "free"
    /\ heap' = [heap EXCEPT ![ptr[t]].live = FALSE, ![ptr[t]].frees = @ + 1]
    /\ ret' = [ret EXCEPT ![t] = [op |-> "set", kind |-> "err", val |-> heap[data].val]]
    /\ pc' = [pc EXCEPT ![t] = "done"]
    /\ ptr' = [ptr EXCEPT ![t] = Null]
    /\ UNCHANGED <<data, event, arg, nNotify, dropped>>

\* set, lines 80-83: the Err arm
set_err(t) ==
    /\ pc[t] = "free"
    /\ heap' = [heap EXCEPT ![ptr[t]].live = FALSE, ![ptr[t]].frees = @ + 1]
    /\ ret' = [ret EXCEPT ![t] = [op |-> "set", kind |-> "err", val |-> heap[ptr[t]].val]]
    /\ pc' = [pc EXCEPT ![t] = "done"]
    /\ ptr' = [ptr EXCEPT ![t] = Null]
    /\ UNCHANGED <<data, event, arg, nNotify, dropped>>

\* get, line 89: event.listen()
get_listen(t) ==
    /\ CanCall(t)
    /\ event' = Listen(event, t)
    /\ pc' = [pc EXCEPT ![t] = "listen"]
    /\ UNCHANGED <<data, heap, arg, ptr, ret, nNotify, dropped>>

\* a poll that completes whether or not the listener was notified
get_poll_ready(t) ==
    /\ pc[t] = "listen"
    /\ event' = Remove(event, t)
    /\ pc' = [pc EXCEPT ![t] = "load"]
    /\ UNCHANGED <<data, heap, arg, ptr, ret, nNotify, dropped>>

\* get, line 90: the first poll of listener.await
get_poll(t) ==
    /\ pc[t] = "listen"
    /\ IF IsNotified(event, t)
       THEN /\ event' = Remove(event, t)
            /\ pc' = [pc EXCEPT ![t] = "load"]
       ELSE /\ event' = event
            /\ pc' = [pc EXCEPT ![t] = "suspended"]
    /\ UNCHANGED <<data, heap, arg, ptr, ret, nNotify, dropped>>

\* get, line 90: the task is woken and polls the notified listener again
get_wake(t) ==
    /\ pc[t] = "suspended"
    /\ IsNotified(event, t)
    /\ event' = Remove(event, t)
    /\ pc' = [pc EXCEPT ![t] = "load"]
    /\ UNCHANGED <<data, heap, arg, ptr, ret, nNotify, dropped>>

\* the success ordering of the compare_exchange of set (line 73) and the
\* ordering of the loads of get and try_get (lines 91, 99)
CasOrdering == "AcqRel"
LoadOrdering == "Acquire"

\* a load with ordering ld that reads the pointer written with ordering st
\* sees the writes made before that store: release paired with acquire
SynchronizesWith(st, ld) ==
    /\ st \in {"Release", "AcqRel", "SeqCst"}
    /\ ld \in {"Acquire", "AcqRel", "SeqCst"}

\* what a read through pointer p yields: the boxed value while the box is live
Deref(p) == IF heap[p].live THEN {heap[p].val} ELSE Values

\* what a read through pointer p yields after p was loaded with ordering ld:
\* without synchronization the write of the payload may not be visible
AsRef(p, ld) == IF SynchronizesWith(CasOrdering, ld) THEN Deref(p) ELSE Values

\* a load that reads the most recent allocation instead of the published one
get_load_latest(t) ==
    /\ pc[t] = "load"
    /\ IF data = Null
       THEN ret' = [ret EXCEPT ![t] = [op |-> "get", kind |-> "panic", val |-> 0]]
       ELSE \E v \in AsRef(Len(heap), LoadOrdering) :
                ret' = [ret EXCEPT ![t] = [op |-> "get", kind |-> "some", val |-> v]]
    /\ pc' = [pc EXCEPT ![t] = "done"]
    /\ UNCHANGED <<data, event, heap, arg, ptr, nNotify, dropped>>

\* get, lines 91-92: data.load(Acquire); ptr.as_ref().unwrap()
get_load(t) ==
    /\ pc[t] = "load"
    /\ IF data = Null
       THEN ret' = [ret EXCEPT ![t] = [op |-> "get", kind |-> "panic", val |-> 0]]
       ELSE \E v \in AsRef(data, LoadOrdering) :
                ret' = [ret EXCEPT ![t] = [op |-> "get", kind |-> "some", val |-> v]]
    /\ pc' = [pc EXCEPT ![t] = "done"]
    /\ UNCHANGED <<data, event, heap, arg, ptr, nNotify, dropped>>

\* a cancellation that unlinks the head of the list instead of its own entry
get_cancel_head(t) ==
    /\ pc[t] = "suspended"
    /\ event' = Tail(event)
    /\ ret' = [ret EXCEPT ![t] = [op |-> "get", kind |-> "cancelled", val |-> 0]]
    /\ pc' = [pc EXCEPT ![t] = "done"]
    /\ UNCHANGED <<data, heap, arg, ptr, nNotify, dropped>>

\* the future of get is dropped while it is pending at line 90
get_cancel(t) ==
    /\ pc[t] = "suspended"
    /\ event' = DropListener(event, t)
    /\ ret' = [ret EXCEPT ![t] = [op |-> "get", kind |-> "cancelled", val |-> 0]]
    /\ pc' = [pc EXCEPT ![t] = "done"]
    /\ UNCHANGED <<data, heap, arg, ptr, nNotify, dropped>>

\* a try_get whose load is Relaxed
try_get_relaxed(t) ==
    /\ CanCall(t)
    /\ IF data = Null
       THEN ret' = [ret EXCEPT ![t] = [op |-> "try_get", kind |-> "absent", val |-> 0]]
       ELSE \E v \in AsRef(data, "Relaxed") :
                ret' = [ret EXCEPT ![t] = [op |-> "try_get", kind |-> "some", val |-> v]]
    /\ pc' = [pc EXCEPT ![t] = "done"]
    /\ UNCHANGED <<data, event, heap, arg, ptr, nNotify, dropped>>

\* a try_get that reports the value only once the event has been notified
try_get_after_notify(t) ==
    /\ CanCall(t)
    /\ IF data = Null \/ nNotify = 0
       THEN ret' = [ret EXCEPT ![t] = [op |-> "try_get", kind |-> "absent", val |-> 0]]
       ELSE \E v \in AsRef(data, LoadOrdering) :
                ret' = [ret EXCEPT ![t] = [op |-> "try_get", kind |-> "some", val |-> v]]
    /\ pc' = [pc EXCEPT ![t] = "done"]
    /\ UNCHANGED <<data, event, heap, arg, ptr, nNotify, dropped>>

\* try_get, lines 98-101
try_get(t) ==
    /\ CanCall(t)
    /\ IF data = Null
       THEN ret' = [ret EXCEPT ![t] = [op |-> "try_get", kind |-> "absent", val |-> 0]]
       ELSE \E v \in AsRef(data, LoadOrdering) :
                ret' = [ret EXCEPT ![t] = [op |-> "try_get", kind |-> "some", val |-> v]]
    /\ pc' = [pc EXCEPT ![t] = "done"]
    /\ UNCHANGED <<data, event, heap, arg, ptr, nNotify, dropped>>

\* a drop that releases nothing
drop_forget ==
    /\ ~dropped
    /\ \A t \in Calls : pc[t] \in {"new", "done"}
    /\ dropped' = TRUE
    /\ UNCHANGED <<data, event, heap, pc, arg, ptr, ret, nNotify>>

\* Drop for OnceWatch, lines 117-124; &mut self: no call is in progress,
\* and none can start afterwards
drop ==
    /\ ~dropped
    /\ \A t \in Calls : pc[t] \in {"new", "done"}
    /\ IF data # Null
       THEN heap' = [heap EXCEPT ![data].live = FALSE, ![data].frees = @ + 1]
       ELSE heap' = heap
    /\ dropped' = TRUE
    /\ UNCHANGED <<data, event, pc, arg, ptr, ret, nNotify>>

Next ==
    \/ \E t \in Calls, v \in Values : set_box(t, v)
    \/ \E t \in Calls : set_compare_exchange(t)
    \/ \E t \in Calls : set_ok(t)
    \/ \E t \in Calls : set_err(t)
    \/ \E t \in Calls : get_listen(t)
    \/ \E t \in Calls : get_poll(t)
    \/ \E t \in Calls : get_wake(t)
    \/ \E t \in Calls : get_load(t)
    \/ \E t \in Calls : get_cancel(t)
    \/ \E t \in Calls : try_get(t)
    \/ drop

Spec == Init /\ [][Next]_vars

\* every started step of a call is eventually taken; starting a call,
\* cancelling a get and dropping the cell are up to the caller
Fairness ==
    \A t \in Calls :
        /\ WF_vars(set_compare_exchange(t))
        /\ WF_vars(set_ok(t))
        /\ WF_vars(set_err(t))
        /\ WF_vars(get_poll(t))
        /\ WF_vars(get_wake(t))
        /\ WF_vars(get_load(t))

FairSpec == Spec /\ Fairness


\* ---- properties ----

InSet(t) == pc[t] \in {"cas", "notify", "free"}
Waiting(t) == pc[t] \in {"listen", "suspended"}

RetIs(t, op, kind) == pc[t] = "done" /\ ret[t].op = op /\ ret[t].kind = kind
GotSome(t) == pc[t] = "done" /\ ret[t].kind = "some"

\* the set calls whose compare_exchange succeeded: those in the Ok arm and
\* those that returned Ok
Won == {w \in Calls : pc[w] = "notify" \/ RetIs(w, "set", "ok")}
Winners == {arg[w] : w \in Won}
OkSets == {w \in Calls : RetIs(w, "set", "ok")}
ErrSets == {w \in Calls : RetIs(w, "set", "err")}

\* C1: at most one set call wins the compare_exchange and returns Ok, and
\* when no set call is in progress and at least one has returned, exactly
\* one has returned Ok (all the others returned Err).
C1_ExactlyOneOk ==
    /\ Cardinality(Won) <= 1
    /\ ((\A t \in Calls : ~InSet(t)) /\ OkSets \cup ErrSets # {}) => Cardinality(OkSets) = 1

C1_Witness ==
    /\ \A t \in Calls : ~InSet(t)
    /\ Cardinality(OkSets) = 1
    /\ Cardinality(ErrSets) >= 2

\* a suspended reader nothing can wake any more: the cell is populated, the
\* winning set has returned, and no listener holds a notification it could
\* pass on
Stuck(t) ==
    /\ pc[t] = "suspended"
    /\ ~IsNotified(event, t)
    /\ data # Null
    /\ \A w \in Calls : pc[w] # "notify"
    /\ \A i \in 1..Len(event) : ~event[i].notified

\* C2: no lost wakeup -- no reachable state has a reader stuck waiting
\* while the cell is populated and the winning set has finished.
C2_NoLostWakeup == \A t \in Calls : ~Stuck(t)

\* C3: every get that returns and every try_get that returns Some yields
\* the payload of the one set call whose compare_exchange succeeded.
C3_ValueAgreement ==
    \A t \in Calls : GotSome(t) => (Cardinality(Won) = 1 /\ Winners = {ret[t].val})

C3_Witness ==
    \E t, w \in Calls :
        /\ RetIs(t, "get", "some")
        /\ RetIs(w, "set", "err")
        /\ ret[w].val # ret[t].val

\* C4: a get call returns only when the slot is populated: the step that
\* ends a get finds data non-null and yields a value.
C4_GetAfterPopulation ==
    [][\A t \in Calls :
          (pc[t] = "load" /\ pc'[t] = "done") => (data # Null /\ ret'[t].kind = "some")]_vars

C4_Witness ==
    \E t \in Calls : RetIs(t, "get", "some") /\ data # Null

\* the result of a get that ended: the winning payload, or the call was abandoned
Resolved(t) ==
    \/ RetIs(t, "get", "cancelled")
    \/ RetIs(t, "get", "some") /\ ret[t].val \in Winners

\* C5: while no set has succeeded no listener is notified and no get has
\* got past its await; a reader that is registered when the winning set is
\* about to notify is eventually woken and returns that set's value
\* (unless its caller abandons it).
C5_EarlyReaderWoken ==
    /\ [](data = Null =>
            \A t \in Calls :
                /\ ~IsNotified(event, t)
                /\ pc[t] # "load"
                /\ ~RetIs(t, "get", "some")
                /\ ~RetIs(t, "get", "panic"))
    /\ \A t \in Calls :
          (Waiting(t) /\ \E w \in Calls : pc[w] = "notify") ~> Resolved(t)

\* two readers registered before the set started have both returned its value
C5_Witness ==
    /\ RetIs(1, "get", "some")
    /\ RetIs(2, "get", "some")
    /\ RetIs(3, "set", "ok")

\* C6: a set whose compare_exchange fails leaves the slot, the stored box
\* and the event as they were, emits no notification, and returns Err with
\* the payload its caller passed in.
C6_FailedSetHandsBack ==
    [][\A t \in Calls :
          /\ (pc[t] = "cas" /\ data # Null /\ pc'[t] # "cas") =>
                /\ pc'[t] = "free"
                /\ data' = data /\ event' = event /\ nNotify' = nNotify /\ heap' = heap
          /\ (pc[t] = "free" /\ pc'[t] # "free") =>
                /\ pc'[t] = "done"
                /\ ret'[t] = [op |-> "set", kind |-> "err", val |-> arg[t]]
                /\ data' = data /\ event' = event /\ nNotify' = nNotify
                /\ data # Null /\ heap'[data] = heap[data]]_vars

C6_Witness ==
    \E t, u \in Calls :
        /\ RetIs(t, "set", "err")
        /\ RetIs(u, "set", "err")
        /\ data # Null
        /\ heap[data].live
        /\ ret[t].val # heap[data].val
        /\ ret[u].val = heap[data].val

\* C7: the slot is empty or points to one allocated box, and once it is
\* populated no step changes the pointer or the boxed value, or frees the
\* box, before the cell is dropped.
C7_WriteOnce ==
    /\ [](data = Null \/ data \in 1..Len(heap))
    /\ [][data # Null =>
            /\ data' = data
            /\ heap'[data].val = heap[data].val
            /\ (~dropped' => heap'[data].live)]_vars

C7_Witness ==
    /\ data # Null
    /\ ~dropped
    /\ ErrSets # {}
    /\ \E t \in Calls : GotSome(t)

\* C8: try_get is one step from call to return, so it never leaves its
\* caller waiting; it returns None when no compare_exchange has succeeded
\* yet and Some of the winning payload when one has.
C8_TryGetTracksSlot ==
    [][\A t \in Calls :
          (pc[t] = "new" /\ pc'[t] = "done") =>
              IF Won = {}
              THEN ret'[t] = [op |-> "try_get", kind |-> "absent", val |-> 0]
              ELSE /\ ret'[t].op = "try_get"
                   /\ ret'[t].kind = "some"
                   /\ Winners = {ret'[t].val}]_vars

C8_Witness ==
    \E t, u \in Calls :
        /\ RetIs(t, "try_get", "absent")
        /\ RetIs(u, "try_get", "some")
        /\ nNotify = 0

\* C9: a get that, once it has registered its listener, finds the slot
\* populated does not suspend: it goes on to load the value.
C9_NoSuspendWhenPopulated ==
    [][\A t \in Calls :
          (pc[t] = "listen" /\ data # Null /\ pc'[t] # "listen") => pc'[t] = "load"]_vars

\* a step in which the pending get t is abandoned
CancelStep(t) ==
    /\ pc[t] = "suspended"
    /\ pc'[t] = "done"

\* C10: abandoning a pending get changes neither the slot nor the box, and
\* takes from no other reader its entry or a notification it has received;
\* a reader that holds a notification goes on to return the value.
C10_CancelIsolation ==
    /\ [][\A t \in Calls :
            CancelStep(t) =>
                /\ data' = data
                /\ heap' = heap
                /\ \A u \in Calls \ {t} :
                      /\ pc'[u] = pc[u]
                      /\ HasEntry(event, u) => HasEntry(event', u)
                      /\ IsNotified(event, u) => IsNotified(event', u)]_vars
    /\ \A u \in Calls : IsNotified(event, u) ~> Resolved(u)

\* of two readers registered before the set started, one was abandoned and
\* the other has returned the value
C10_Witness ==
    \E t, u \in 1..2 :
        /\ RetIs(t, "get", "cancelled")
        /\ RetIs(u, "get", "some")
        /\ RetIs(3, "set", "ok")

\* a step of a get or try_get call t
ReadStep(t) ==
    /\ pc[t] \in {"new", "listen", "suspended", "load"}
    /\ pc'[t] # pc[t]
    /\ pc'[t] \in {"listen", "suspended", "load", "done"}

\* C11: once the cell is populated no step of a get or try_get changes the
\* slot or the box, every value such a call yields is the stored one, and
\* every get made on the populated cell yields it (ends with the value
\* unless its caller abandons it).
C11_ReadIdempotence ==
    /\ [][\A t \in Calls : (ReadStep(t) /\ data # Null) => (data' = data /\ heap' = heap)]_vars
    /\ [](\A t \in Calls : GotSome(t) => (data # Null /\ ret[t].val = heap[data].val))
    /\ \A t \in Calls : (pc[t] = "listen" /\ data # Null) ~> Resolved(t)

\* C12: the step that publishes a pointer publishes a live box that already
\* holds the whole payload of its set call, and every value a get or a
\* try_get reads through the slot is that payload.
C12_Visibility ==
    /\ [][\A t \in Calls :
            (pc[t] = "cas" /\ pc'[t] = "notify") =>
                /\ data = Null
                /\ data' = ptr[t]
                /\ heap[data'].live
                /\ heap[data'].val = arg[t]]_vars
    /\ [](\A t \in Calls : GotSome(t) => (data # Null /\ ret[t].val = heap[data].val))

C12_Witness ==
    \E t, u \in Calls :
        /\ RetIs(t, "try_get", "some")
        /\ pc[u] = "notify"
        /\ ret[t].val = arg[u]

\* C13: dropping a populated cell frees the published box, which was never
\* freed before, exactly once and frees nothing else; dropping an empty
\* cell frees nothing.
C13_DropReleasesOnce ==
    /\ [][(~dropped /\ dropped') =>
            IF data = Null
            THEN heap' = heap
            ELSE /\ heap[data].live /\ heap[data].frees = 0
                 /\ heap' = [heap EXCEPT ![data] = [val |-> heap[data].val, live |-> FALSE, frees |-> 1]]]_vars
    /\ [](dropped => (data # Null => (~heap[data].live /\ heap[data].frees = 1)))
    /\ [](~dropped => (data # Null => (heap[data].live /\ heap[data].frees = 0)))

C13_Witness ==
    /\ dropped
    /\ data # Null
    /\ heap[data].frees = 1
    /\ \E t \in Calls : RetIs(t, "set", "err")

\* the next step of the set call t
SetStep(t) == set_compare_exchange(t) \/ set_ok(t) \/ set_err(t)

\* the number of steps the set call t still has to take
SetStepsLeft(t) ==
    IF pc[t] = "cas" THEN 2
    ELSE IF pc[t] \in {"notify", "free"} THEN 1
    ELSE 0

\* C14: a set call that has started can always take its next step, whatever
\* the other calls are doing; each of its steps brings it closer to its
\* return (one compare_exchange, then one notification or one free, no
\* retry), and it returns.
C14_SetNeverBlocks ==
    /\ [](\A t \in Calls : InSet(t) => ENABLED SetStep(t))
    /\ [][\A t \in Calls :
            (InSet(t) /\ (pc'[t] # pc[t] \/ ret'[t] # ret[t])) =>
                SetStepsLeft(t)' = SetStepsLeft(t) - 1]_vars
    /\ \A t \in Calls : InSet(t) ~> (pc[t] = "done" /\ ret[t].op = "set")

\* a losing set has returned while a reader is still suspended
C14_Witness ==
    \E t, u \in Calls :
        /\ RetIs(t, "set", "err")
        /\ pc[u] = "suspended"
        /\ ~IsNotified(event, u)

\* C15: at most one notification is emitted in the life of the cell; the
\* step that emits it is the Ok arm of the set call that won the
\* compare_exchange, taken when the slot is already populated with that
\* call's box; no notification has been emitted while the slot is empty.
C15_BroadcastAfterPublish ==
    /\ [](nNotify <= 1 /\ (nNotify > 0 => data # Null))
    /\ [](nNotify = Cardinality(OkSets))
    /\ [][nNotify' # nNotify =>
            /\ nNotify' = nNotify + 1
            /\ \E t \in Calls :
                  /\ pc[t] = "notify" /\ pc'[t] = "done"
                  /\ data = ptr[t] /\ data # Null
                  /\ ret'[t].kind = "ok"]_vars

\* the winner has notified, a loser has returned Err, no second notification
C15_Witness ==
    /\ nNotify = 1
    /\ ErrSets # {}
    /\ \A t \in Calls : ~InSet(t)

\* C16: the broadcast of the winning set opens the gate for good: once it
\* has been emitted every listener in the list is notified, also one that
\* registered after it.
C16_GateStaysOpen ==
    \A t \in Calls : (nNotify > 0 /\ HasEntry(event, t)) => IsNotified(event, t)

\* C17: a get whose listener was notified loads a non-null pointer: the
\* unwrap does not panic.
C17_UnwrapNeverFails ==
    /\ \A t \in Calls : (IsNotified(event, t) \/ pc[t] = "load") => data # Null
    /\ \A t \in Calls : ~RetIs(t, "get", "panic")

\* a notified get is about to load the slot
C17_Witness ==
    \E t \in Calls : pc[t] = "load" /\ data # Null /\ nNotify = 1

\* the parties that own box p: the slot (written 0) while the cell is alive,
\* or a set call that holds it unpublished
Owners(p) ==
    (IF data = p /\ ~dropped THEN {0} ELSE {})
        \cup {t \in Calls : pc[t] \in {"cas", "free"} /\ ptr[t] = p}

\* C18: every box a set call allocated is either live with exactly one
\* owner (the slot, or the one set call that still holds it unpublished) or
\* freed exactly once with no owner; the box the slot points to is live
\* until the cell is dropped, a losing set's box is never in the slot, and
\* every set call that returned Err has freed its box.
C18_AllocationOwnership ==
    /\ \A p \in 1..Len(heap) :
          /\ heap[p].frees <= 1
          /\ heap[p].live <=> heap[p].frees = 0
          /\ IF heap[p].live THEN Cardinality(Owners(p)) = 1 ELSE Owners(p) = {}
    /\ \A t \in Calls : pc[t] \in {"cas", "free"} => (ptr[t] \in 1..Len(heap) /\ ptr[t] # data)
    /\ \A t \in Calls : pc[t] = "notify" => ptr[t] = data
    /\ Cardinality({p \in 1..Len(heap) : ~heap[p].live /\ (p # data \/ ~dropped)}) = Cardinality(ErrSets)
    /\ Len(heap) = Cardinality({t \in Calls : InSet(t) \/ ret[t].op = "set"})

\* two concurrent sets: the loser has freed its box, the winner's is in the slot
C18_Witness ==
    \E t, u \in Calls :
        /\ pc[t] = "notify"
        /\ RetIs(u, "set", "err")
        /\ u < t
        /\ heap[data].live
        /\ \E p \in 1..Len(heap) : p # data /\ ~heap[p].live /\ heap[p].frees = 1

====
